---- MODULE Spec2Model ----
(***************************************************************************)
(* A model of search_engine/search_index.py (class BigramIndex): the       *)
(* normalizer, the inverted index word_docs, the bigram index, the three   *)
(* query forms and the JSON snapshot files.                                *)
(*                                                                         *)
(* A string is a sequence of one-character strings.  The alphabet holds a  *)
(* letter in both cases, a second letter and the asterisk, which is both a *)
(* punctuation character of the normalizer (it becomes a blank, so it      *)
(* separates the words of a text) and the wildcard of type3 queries.  No   *)
(* other character of the alphabet is special in a regular expression, so  *)
(* re.match on the translated pattern is a glob match.  The punctuation    *)
(* set and the stopword list are the built-in defaults of load_punctuations*)
(* and load_stopwords.                                                     *)
(*                                                                         *)
(* Spec is an instance built by add_document and asked queries;            *)
(* SpecPersist adds save_index_to_files and new instances that load the    *)
(* files; SpecLoaded starts from an instance that found both files.  A set *)
(* is iterated in any order: the order is an input of each call.           *)
(***************************************************************************)
EXTENDS Integers, Sequences, FiniteSets, TLC

\* ------------------------------------------------------------------ bounds
MaxLen == 3
MaxDocId == 2
MaxAdds == 2

Alphabet == {"s", "o", "S", "*"}
DocIds == 1..MaxDocId

RECURSIVE StringsUpTo(_)
StringsUpTo(n) ==
  IF n = 0 THEN {<<>>}
  ELSE LET shorter == StringsUpTo(n - 1)
       IN shorter \cup {Append(s, c) : s \in {x \in shorter : Len(x) = n - 1}, c \in Alphabet}

\* Every text a document or a query may carry.
Texts == StringsUpTo(MaxLen)

\* ------------------------------------------------------- string primitives
Range(f) == {f[x] : x \in DOMAIN f}

Put(m, k, v) == [x \in (DOMAIN m) \cup {k} |-> IF x = k THEN v ELSE m[x]]

whitespace == {" "}

\* str.lower(), one character
lower(c) == IF c = "S" THEN "s" ELSE c

Lower(str) == [i \in 1..Len(str) |-> lower(str[i])]

\* str.split(): cut at runs of whitespace, no empty pieces
RECURSIVE SplitWs(_, _, _, _)
SplitWs(str, i, cur, acc) ==
  IF i > Len(str) THEN (IF cur = <<>> THEN acc ELSE Append(acc, cur))
  ELSE IF str[i] \in whitespace
       THEN SplitWs(str, i + 1, <<>>, IF cur = <<>> THEN acc ELSE Append(acc, cur))
       ELSE SplitWs(str, i + 1, Append(cur, str[i]), acc)

split(str) == SplitWs(str, 1, <<>>, <<>>)

\* sep.join(words)
RECURSIVE join(_, _)
join(sep, words) ==
  IF words = <<>> THEN <<>>
  ELSE IF Len(words) = 1 THEN words[1]
  ELSE words[1] \o sep \o join(sep, Tail(words))

\* str.split(sep): cut at each leftmost occurrence of sep, empty pieces kept
RECURSIVE SplitSepFrom(_, _, _, _, _)
SplitSepFrom(str, sep, i, cur, acc) ==
  IF i > Len(str) THEN Append(acc, cur)
  ELSE IF i + Len(sep) - 1 <= Len(str) /\ SubSeq(str, i, i + Len(sep) - 1) = sep
       THEN SplitSepFrom(str, sep, i + Len(sep), <<>>, Append(acc, cur))
       ELSE SplitSepFrom(str, sep, i + 1, Append(cur, str[i]), acc)

split_sep(str, sep) == SplitSepFrom(str, sep, 1, <<>>, <<>>)

\* The default punctuation set, cut to the alphabet.
punctuations == {"*"}

\* The default stopword list: its words over the alphabet, and its
\* shortest other words.
stopwords == {<<"s", "o">>, <<"a">>, <<"a", "n">>, <<"a", "s">>, <<"i", "f">>,
              <<"i", "s">>, <<"o", "f">>, <<"o", "r">>, <<"t", "o">>}

clean_and_tokenize(text) ==
  LET nopunct == [i \in 1..Len(text) |-> IF text[i] \in punctuations THEN " " ELSE text[i]]
      tokens == split(Lower(nopunct))
  IN SelectSeq(tokens, LAMBDA token : token \notin stopwords)

\* clean_and_tokenize, tabulated over the texts
Tokens == [text \in Texts |-> clean_and_tokenize(text)]

\* ------------------------------------------------------------------- state
VARIABLES
  word_docs,     \* token -> set of document ids
  index,         \* bigram -> set of tokens
  doc_stats,     \* document id -> [total_words, unique_words]
  kind,          \* "defaultdict" or "dict": the type of word_docs and index
  index_file,    \* output/index.json
  bigrams_file,  \* output/bigrams.json
  op,            \* the last call
  ret,           \* what the last query returned
  exc,           \* the exception the last call raised, or "none"
  ingested,      \* history: the <<id, token>> pairs add_document was given
  saved,         \* history: the maps save_index_to_files last wrote
  nAdds          \* the number of add_document calls made

vars == <<word_docs, index, doc_stats, kind, index_file, bigrams_file, op, ret,
          exc, ingested, saved, nAdds>>

\* -------------------------------------------------------------- ingestion
\* The bigrams of a string: str[i:i + 2] for i in range(len(str) - 1)
bigrams(str) == [i \in 1..(Len(str) - 1) |-> <<str[i], str[i + 1]>>]

\* for i in range(...): self.index[bigram].add(word)
RECURSIVE AddBigrams(_, _, _, _, _)
AddBigrams(idx, k, bgs, i, word) ==
  IF i > Len(bgs) THEN [index |-> idx, exc |-> "none"]
  ELSE IF bgs[i] \in DOMAIN idx
       THEN AddBigrams(Put(idx, bgs[i], idx[bgs[i]] \cup {word}), k, bgs, i + 1, word)
       ELSE IF k = "defaultdict"
            THEN AddBigrams(Put(idx, bgs[i], {word}), k, bgs, i + 1, word)
            ELSE [index |-> idx, exc |-> "KeyError"]

\* for word in words: ...
RECURSIVE AddWords(_, _, _, _, _, _)
AddWords(wd, idx, k, words, i, doc_id) ==
  IF i > Len(words) THEN [word_docs |-> wd, index |-> idx, exc |-> "none"]
  ELSE LET word == words[i] IN
       IF word \notin DOMAIN wd /\ k = "dict"
       THEN [word_docs |-> wd, index |-> idx, exc |-> "KeyError"]
       ELSE LET wd2 == Put(wd, word, (IF word \in DOMAIN wd THEN wd[word] ELSE {}) \cup {doc_id})
                r == AddBigrams(idx, k, bigrams(<<"$">> \o word \o <<"$">>), 1, word)
            IN IF r.exc # "none"
               THEN [word_docs |-> wd2, index |-> r.index, exc |-> r.exc]
               ELSE AddWords(wd2, r.index, k, words, i + 1, doc_id)

\* add_document that first drops the postings the id already has
add_document_replacing(wd, idx, stats, k, doc_id, text) ==
  LET words == Tokens[text]
      stats2 == Put(stats, doc_id, [total_words |-> Len(words),
                                    unique_words |-> Cardinality(Range(words))])
      r == AddWords([w \in DOMAIN wd |-> wd[w] \ {doc_id}], idx, k, words, 1, doc_id)
  IN [word_docs |-> r.word_docs, index |-> r.index, doc_stats |-> stats2, exc |-> r.exc]

add_document(wd, idx, stats, k, doc_id, text) ==
  LET words == Tokens[text]
      stats2 == Put(stats, doc_id, [total_words |-> Len(words),
                                    unique_words |-> Cardinality(Range(words))])
      r == AddWords(wd, idx, k, words, 1, doc_id)
  IN [word_docs |-> r.word_docs, index |-> r.index, doc_stats |-> stats2, exc |-> r.exc]

\* ------------------------------------------------------------------ queries
\* The orders in which a set of document ids may be iterated.
Orders == {o \in [1..MaxDocId -> DocIds] : \A i, j \in 1..MaxDocId : i # j => o[i] # o[j]}

\* list(s), for a set s iterated in the order ord
list(S, ord) == SelectSeq(ord, LAMBDA d : d \in S)

\* sorted(lst), by insertion
RECURSIVE Insert(_, _)
Insert(x, lst) ==
  IF lst = <<>> THEN <<x>>
  ELSE IF x <= Head(lst) THEN <<x>> \o lst
  ELSE <<Head(lst)>> \o Insert(x, Tail(lst))

RECURSIVE sorted(_)
sorted(lst) == IF lst = <<>> THEN <<>> ELSE Insert(Head(lst), sorted(Tail(lst)))

and_sep == <<" ", "a", "n", "d", " ">>
or_sep == <<" ", "o", "r", " ">>

\* process_query's rewriting of the query text: the cleaned words joined by
\* the connective
processed_query(text, sep) ==
  LET cleaned_query == join(<<" ">>, Tokens[text])
  IN IF " " \in Range(cleaned_query) THEN join(sep, split(cleaned_query)) ELSE cleaned_query

AndQuery == [text \in Texts |-> processed_query(text, and_sep)]
OrQuery == [text \in Texts |-> processed_query(text, or_sep)]

\* query.lower().split(" and "), query.lower().split(" or "), tabulated
AndKeywords == [q \in Range(AndQuery) |-> split_sep(Lower(q), and_sep)]
OrKeywords == [q \in Range(OrQuery) |-> split_sep(Lower(q), or_sep)]

\* The loop of type1_query: the result so far, or the early return.
RECURSIVE Type1Loop(_, _, _, _, _)
Type1Loop(keywords, i, result, first, wd) ==
  IF i > Len(keywords) THEN [early |-> FALSE, result |-> result]
  ELSE IF keywords[i] \in DOMAIN wd
       THEN IF first
            THEN Type1Loop(keywords, i + 1, wd[keywords[i]], FALSE, wd)
            ELSE Type1Loop(keywords, i + 1, result \cap wd[keywords[i]], first, wd)
       ELSE [early |-> TRUE, result |-> {}]

\* type1_query that passes over a keyword the index does not hold
type1_query_skip_absent(query, wd, ord) ==
  LET present == SelectSeq(AndKeywords[query], LAMBDA kw : kw \in DOMAIN wd)
      r == Type1Loop(present, 1, {}, TRUE, wd)
  IN sorted(list(r.result, ord))

\* type1_query that returns its result as list() gave it
type1_query_unsorted(query, wd, ord) ==
  LET r == Type1Loop(AndKeywords[query], 1, {}, TRUE, wd)
  IN IF r.early THEN <<>> ELSE list(r.result, ord)

type1_query(query, wd, ord) ==
  LET r == Type1Loop(AndKeywords[query], 1, {}, TRUE, wd)
  IN IF r.early THEN <<>> ELSE sorted(list(r.result, ord))

RECURSIVE Type2Loop(_, _, _, _)
Type2Loop(keywords, i, result, wd) ==
  IF i > Len(keywords) THEN result
  ELSE IF keywords[i] \in DOMAIN wd
       THEN Type2Loop(keywords, i + 1, result \cup wd[keywords[i]], wd)
       ELSE Type2Loop(keywords, i + 1, result, wd)

\* type2_query that gives up at a keyword the index does not hold
type2_query_all_present(query, wd, ord) ==
  IF \E i \in 1..Len(OrKeywords[query]) : OrKeywords[query][i] \notin DOMAIN wd
  THEN <<>>
  ELSE sorted(list(Type2Loop(OrKeywords[query], 1, {}, wd), ord))

type2_query(query, wd, ord) ==
  sorted(list(Type2Loop(OrKeywords[query], 1, {}, wd), ord))

\* re.match("^" + pattern.replace('*', '.*') + "$", word), from position i of
\* the pattern and j of the word
RECURSIVE ReMatchFrom(_, _, _, _)
ReMatchFrom(pattern, i, word, j) ==
  IF i > Len(pattern) THEN j > Len(word)
  ELSE IF pattern[i] = "*"
       THEN ReMatchFrom(pattern, i + 1, word, j)
            \/ (j <= Len(word) /\ ReMatchFrom(pattern, i, word, j + 1))
       ELSE j <= Len(word) /\ pattern[i] = word[j] /\ ReMatchFrom(pattern, i + 1, word, j + 1)

re_match(pattern, word) == ReMatchFrom(pattern, 1, word, 1)

\* A candidate set of wildcard_search: None, or a set object.  The object is
\* either the set the index holds under a bigram (key), shared with the
\* index, or a set of its own (val).
NoKey == <<>>
NoneSet == [none |-> TRUE, key |-> NoKey, val |-> {}]
OwnSet(S) == [none |-> FALSE, key |-> NoKey, val |-> S]
SharedSet(b) == [none |-> FALSE, key |-> b, val |-> {}]

SetValue(c, idx) == IF c.key # NoKey THEN idx[c.key] ELSE c.val

\* self.index.get(bigram, set())
index_get(idx, bigram) == IF bigram \in DOMAIN idx THEN SharedSet(bigram) ELSE OwnSet({})

\* a &= b: the object a is changed in place
intersection_update(idx, a, b) ==
  LET new == SetValue(a, idx) \cap SetValue(b, idx)
  IN IF a.key # NoKey
     THEN [index |-> [idx EXCEPT ![a.key] = new], cand |-> a]
     ELSE [index |-> idx, cand |-> OwnSet(new)]

\* for i in range(len(part) - 1): the bigram loop of a prefix or a suffix
RECURSIVE BigramLoop(_, _, _, _)
BigramLoop(idx, bgs, i, cand) ==
  IF i > Len(bgs) THEN [index |-> idx, cand |-> cand]
  ELSE LET bigram_words == index_get(idx, bgs[i]) IN
       IF cand.none
       THEN BigramLoop(idx, bgs, i + 1, bigram_words)
       ELSE LET r == intersection_update(idx, cand, bigram_words)
            IN BigramLoop(r.index, bgs, i + 1, r.cand)

\* The position of the first '*' of a string that holds one
FirstStar(str) == CHOOSE i \in 1..Len(str) : str[i] = "*" /\ \A j \in 1..(i - 1) : str[j] # "*"

wildcard_search(pattern, wd, idx, k, ord) ==
  IF "*" \notin Range(pattern)
  THEN [ret |-> <<>>, word_docs |-> wd, index |-> idx, exc |-> "none"]
  ELSE
    LET lowered == Lower(pattern)
        star == FirstStar(lowered)
        prefix == SubSeq(lowered, 1, star - 1)
        suffix == SubSeq(lowered, star + 1, Len(lowered))
        p == IF prefix # <<>>
             THEN BigramLoop(idx, bigrams(<<"$">> \o prefix), 1, NoneSet)
             ELSE [index |-> idx, cand |-> NoneSet]
        s == IF suffix # <<>>
             THEN BigramLoop(p.index, bigrams(suffix \o <<"$">>), 1, NoneSet)
             ELSE [index |-> p.index, cand |-> NoneSet]
        c == IF suffix = <<>> THEN p
             ELSE IF p.cand.none THEN s
             ELSE IF ~s.cand.none THEN intersection_update(s.index, p.cand, s.cand)
             ELSE [index |-> s.index, cand |-> p.cand]
        candidates == IF c.cand.none THEN {} ELSE SetValue(c.cand, c.index)
        matches == {word \in candidates : re_match(pattern, word)}
        missing == matches \ DOMAIN wd
        wd2 == [w \in (DOMAIN wd) \cup missing |-> IF w \in DOMAIN wd THEN wd[w] ELSE {}]
        doc_ids == UNION {wd2[word] : word \in matches}
    IN IF candidates = {}
       THEN [ret |-> <<>>, word_docs |-> wd, index |-> c.index, exc |-> "none"]
       ELSE IF missing # {} /\ k = "dict"
       THEN [ret |-> <<>>, word_docs |-> wd, index |-> c.index, exc |-> "KeyError"]
       ELSE [ret |-> sorted(list(doc_ids, ord)), word_docs |-> wd2, index |-> c.index,
             exc |-> "none"]

type3_query(pattern, wd, idx, k, ord) == wildcard_search(pattern, wd, idx, k, ord)

QueryTypes == {"type1", "type2", "type3", "type4"}

process_query(query_type, query_text, wd, idx, k, ord) ==
  IF query_type = "type1"
  THEN [ret |-> type1_query(AndQuery[query_text], wd, ord), word_docs |-> wd, index |-> idx,
        exc |-> "none"]
  ELSE IF query_type = "type2"
  THEN [ret |-> type2_query(OrQuery[query_text], wd, ord), word_docs |-> wd, index |-> idx,
        exc |-> "none"]
  ELSE IF query_type = "type3"
  THEN type3_query(query_text, wd, idx, k, ord)
  ELSE [ret |-> <<>>, word_docs |-> wd, index |-> idx, exc |-> "none"]

\* ------------------------------------------------------------ persistence
\* A snapshot file: absent, unparsable, or a JSON object of arrays.
Absent == [status |-> "absent", data |-> <<>>]
Corrupt == [status |-> "corrupt", data |-> <<>>]
Json(obj) == [status |-> "ok", data |-> obj]

\* The lists a set may be turned into by list(v): its elements in any order.
Listings(S) ==
  {l \in [1..Cardinality(S) -> S] : \A i, j \in 1..Cardinality(S) : i # j => l[i] # l[j]}

\* {k: list(v) for k, v in m.items()}: every object the dump may write
RECURSIVE DumpsOver(_, _)
DumpsOver(m, keys) ==
  IF keys = {} THEN {<<>>}
  ELSE LET k == CHOOSE x \in keys : TRUE
       IN {Put(d, k, l) : d \in DumpsOver(m, keys \ {k}), l \in Listings(m[k])}

dumps(m) == DumpsOver(m, DOMAIN m)

\* {k: set(v) for k, v in obj.items()}
sets_of(obj) == [k \in DOMAIN obj |-> Range(obj[k])]

\* load_index_from_files that reads each map from the other file
load_index_from_files_swapped(wfile, bfile) ==
  IF wfile.status = "ok" /\ bfile.status = "ok"
  THEN [word_docs |-> sets_of(bfile.data), index |-> sets_of(wfile.data), kind |-> "dict"]
  ELSE [word_docs |-> <<>>, index |-> <<>>, kind |-> "defaultdict"]

load_index_from_files(wfile, bfile) ==
  IF wfile.status = "ok" /\ bfile.status = "ok"
  THEN [word_docs |-> sets_of(wfile.data), index |-> sets_of(bfile.data), kind |-> "dict"]
  ELSE [word_docs |-> <<>>, index |-> <<>>, kind |-> "defaultdict"]

\* BigramIndex(): the maps of a new instance
new_index(wfile, bfile) ==
  IF wfile.status # "absent" /\ bfile.status # "absent"
  THEN load_index_from_files(wfile, bfile)
  ELSE [word_docs |-> <<>>, index |-> <<>>, kind |-> "defaultdict"]

\* ---------------------------------------------------------------- actions
\* BigramIndex() with no snapshot files
Init ==
  /\ word_docs = <<>>
  /\ index = <<>>
  /\ doc_stats = <<>>
  /\ kind = "defaultdict"
  /\ index_file = Absent
  /\ bigrams_file = Absent
  /\ op = "idle"
  /\ ret = <<>>
  /\ exc = "none"
  /\ ingested = {}
  /\ saved = [word_docs |-> <<>>, index |-> <<>>]
  /\ nAdds = 0

AddDocument ==
  /\ op = "idle"
  /\ nAdds < MaxAdds
  /\ \E doc_id \in DocIds, text \in Texts :
       LET r == add_document(word_docs, index, doc_stats, kind, doc_id, text) IN
       /\ word_docs' = r.word_docs
       /\ index' = r.index
       /\ doc_stats' = r.doc_stats
       /\ exc' = r.exc
       /\ ingested' = ingested \cup {<<doc_id, w>> : w \in Range(Tokens[text])}
  /\ op' = "add_document"
  /\ ret' = <<>>
  /\ nAdds' = nAdds + 1
  /\ UNCHANGED <<kind, index_file, bigrams_file, saved>>

ProcessQuery ==
  /\ op = "idle"
  /\ \E query_type \in QueryTypes, query_text \in Texts, ord \in Orders :
       LET r == process_query(query_type, query_text, word_docs, index, kind, ord) IN
       /\ ret' = r.ret
       /\ word_docs' = r.word_docs
       /\ index' = r.index
       /\ exc' = r.exc
       /\ op' = query_type
  /\ UNCHANGED <<doc_stats, kind, index_file, bigrams_file, ingested, saved, nAdds>>

\* The caller takes what the call returned; the next call may start.
Return ==
  /\ op # "idle"
  /\ op' = "idle"
  /\ ret' = <<>>
  /\ exc' = "none"
  /\ UNCHANGED <<word_docs, index, doc_stats, kind, index_file, bigrams_file, ingested,
                 saved, nAdds>>

SaveIndex ==
  /\ op = "idle"
  /\ \E wobj \in dumps(word_docs), bobj \in dumps(index) :
       /\ index_file' = Json(wobj)
       /\ bigrams_file' = Json(bobj)
  /\ saved' = [word_docs |-> word_docs, index |-> index]
  /\ op' = "save_index_to_files"
  /\ UNCHANGED <<word_docs, index, doc_stats, kind, ret, exc, ingested, nAdds>>

\* A new BigramIndex replaces the instance.
NewInstance ==
  /\ op = "idle"
  /\ LET r == new_index(index_file, bigrams_file) IN
       /\ word_docs' = r.word_docs
       /\ index' = r.index
       /\ kind' = r.kind
  /\ doc_stats' = <<>>
  /\ ingested' = {}
  /\ op' = "__init__"
  /\ UNCHANGED <<index_file, bigrams_file, ret, exc, saved, nAdds>>

Next == AddDocument \/ ProcessQuery \/ Return

Spec == Init /\ [][Next]_vars

\* Ingestion, snapshots and restarts.
NextPersist == AddDocument \/ SaveIndex \/ NewInstance \/ Return

SpecPersist == Init /\ [][NextPersist]_vars

\* The snapshot pairs a process may start from.
tok_s == <<"s">>
SnapshotPairs ==
  {<<Json(<<>>), Json(<<>>)>>,
   <<Json(tok_s :> <<2, 1>>), Json((<<"$", "s">> :> <<tok_s>>) @@ (<<"s", "$">> :> <<tok_s>>))>>,
   <<Json(<<>>), Json((<<"$", "s">> :> <<tok_s>>) @@ (<<"s", "$">> :> <<tok_s>>))>>,
   <<Json(tok_s :> <<2, 1>>), Json(<<>>)>>,
   <<Corrupt, Json(<<>>)>>}

\* BigramIndex() with both snapshot files present
InitLoaded ==
  /\ \E pair \in SnapshotPairs :
       /\ index_file = pair[1]
       /\ bigrams_file = pair[2]
       /\ LET r == new_index(pair[1], pair[2]) IN
            /\ word_docs = r.word_docs
            /\ index = r.index
            /\ kind = r.kind
  /\ doc_stats = <<>>
  /\ op = "idle"
  /\ ret = <<>>
  /\ exc = "none"
  /\ ingested = {}
  /\ saved = [word_docs |-> <<>>, index |-> <<>>]
  /\ nAdds = 0

SpecLoaded == InitLoaded /\ [][Next]_vars

\* ------------------------------------------------------------------ claims
StrictlyAscending(lst) == \A i \in 1..(Len(lst) - 1) : lst[i] < lst[i + 1]

\* Every document id some posting list holds.
Posted == UNION Range(word_docs)

Query(query_type, query_text, ord) ==
  process_query(query_type, query_text, word_docs, index, kind, ord)

\* The documents that belong to the posting list of every token of toks.
InEveryPosting(toks) ==
  {d \in Posted : \A i \in 1..Len(toks) : toks[i] \in DOMAIN word_docs /\ d \in word_docs[toks[i]]}

\* C1: a process_query call leaves word_docs, index and doc_stats as they
\* were, whatever the type tag and the text.
C1_QueryReadOnly ==
  [][(op = "idle" /\ op' \in QueryTypes) => UNCHANGED <<word_docs, index, doc_stats>>]_vars

\* C2: for every token w of the inverted index, the type3 query made of w's
\* first character, '*' and w's last character returns every document id of
\* w's posting list.
C2_WildcardCompleteness ==
  \A w \in DOMAIN word_docs, ord \in Orders :
    word_docs[w] \subseteq Range(Query("type3", <<w[1], "*", w[Len(w)]>>, ord).ret)

\* C3 as stated: for every text, type1 returns exactly the documents that are
\* in the posting list of every token of the normalized text, and the empty
\* list when a token is no key of the index.
C3_ConjunctiveAsStated ==
  \A text \in Texts, ord \in Orders :
    LET toks == Tokens[text]
        res == Query("type1", text, ord).ret
    IN /\ Range(res) = InEveryPosting(toks)
       /\ Len(res) = Cardinality(Range(res))
       /\ (\E i \in 1..Len(toks) : toks[i] \notin DOMAIN word_docs) => res = <<>>

\* C3 as amended: for every text whose normalized text has at least one
\* token, type1 returns exactly the documents that are in the posting list of
\* every token, and the empty list when a token is no key of the index; for a
\* text that normalizes to no token it returns the empty list.
C3_Conjunctive ==
  \A text \in Texts, ord \in Orders :
    LET toks == Tokens[text]
        res == Query("type1", text, ord).ret
    IN /\ toks # <<>> => Range(res) = InEveryPosting(toks)
       /\ toks = <<>> => res = <<>>
       /\ Len(res) = Cardinality(Range(res))
       /\ (\E i \in 1..Len(toks) : toks[i] \notin DOMAIN word_docs) => res = <<>>

\* A type1 query of two different tokens has returned a result that is
\* smaller than one token's posting list.
C3_Witness ==
  /\ op = "type1"
  /\ ret # <<>>
  /\ \E text \in Texts, ord \in Orders :
       LET toks == Tokens[text] IN
       /\ Len(toks) = 2 /\ toks[1] # toks[2]
       /\ Query("type1", text, ord).ret = ret
       /\ \E i \in 1..2 : Range(ret) # word_docs[toks[i]]

\* C4: for every text, type2 returns exactly the union of the posting lists
\* of the normalized tokens that are keys of the index (a token that is none
\* adds nothing), so the result holds the result of each token asked alone.
C4_Disjunctive ==
  \A text \in Texts, ord \in Orders :
    LET toks == Tokens[text]
        res == Query("type2", text, ord).ret
    IN /\ Range(res) = UNION {word_docs[t] : t \in Range(toks) \cap DOMAIN word_docs}
       /\ Len(res) = Cardinality(Range(res))
       /\ \A i \in 1..Len(toks) : Range(Query("type2", toks[i], ord).ret) \subseteq Range(res)

\* A type2 query of a token the index holds and one it does not has
\* returned documents.
C4_Witness ==
  /\ op = "type2"
  /\ ret # <<>>
  /\ \E text \in Texts, ord \in Orders :
       LET toks == Tokens[text] IN
       /\ Len(toks) = 2
       /\ toks[1] \in DOMAIN word_docs /\ toks[2] \notin DOMAIN word_docs
       /\ Query("type2", text, ord).ret = ret

\* C5: whatever the type tag, the text and the order sets are iterated in,
\* the list process_query returns is in strictly ascending order of document
\* id.
C5_SortedResult ==
  /\ StrictlyAscending(ret)
  /\ \A query_type \in QueryTypes, text \in Texts, ord \in Orders :
       StrictlyAscending(Query(query_type, text, ord).ret)

\* Each of the three query types has returned two documents.
C5_Witness ==
  /\ op \in {"type1", "type2", "type3"}
  /\ Len(ret) >= 2
  /\ \A query_type \in {"type1", "type2", "type3"} :
       \E text \in Texts, ord \in Orders :
         ord[1] > ord[2] /\ Len(Query(query_type, text, ord).ret) >= 2

\* C6: a process_query call raises nothing, in an index built by
\* add_document and in one loaded from two snapshot files that parse.
C6_QueryNeverRaises == op \in QueryTypes => exc = "none"

\* C7: document id d is in the posting list of token t exactly when t is a
\* token of the normalized text of some add_document call made with id d.
C7_PostingInvariant ==
  /\ \A t \in DOMAIN word_docs : \A d \in word_docs[t] : <<d, t>> \in ingested
  /\ \A p \in ingested : p[2] \in DOMAIN word_docs /\ p[1] \in word_docs[p[2]]

\* An id was ingested twice with different texts: its statistics are those of
\* the last text, and it is still posted under a token of the first.
C7_Witness ==
  \E d \in DOMAIN doc_stats :
    /\ nAdds = 2
    /\ DOMAIN doc_stats = {d}
    /\ doc_stats[d].unique_words = 1
    /\ Cardinality({t \in DOMAIN word_docs : d \in word_docs[t]}) = 2

\* C8: a new BigramIndex that loads the files save_index_to_files wrote holds
\* the token -> id-set map and the bigram -> token-set map that were saved,
\* whatever the order of the arrays.
C8_RoundTrip ==
  (op = "__init__" /\ index_file.status = "ok" /\ bigrams_file.status = "ok")
    => (word_docs = saved.word_docs /\ index = saved.index)

\* An index with a two-document posting list was saved, the array of the
\* list not in ascending order, and loaded.
C8_Witness ==
  /\ op = "__init__"
  /\ kind = "dict"
  /\ index # <<>>
  /\ \E t \in DOMAIN word_docs :
       Cardinality(word_docs[t]) = 2 /\ ~StrictlyAscending(index_file.data[t])

\* The code point order of the characters.
CharCode(c) ==
  CASE c = "$" -> 36 [] c = "*" -> 42 [] c = "S" -> 83 [] c = "o" -> 111 [] c = "s" -> 115
    [] OTHER -> 32

\* Python's order of two strings
RECURSIVE StrLess(_, _)
StrLess(a, b) ==
  IF b = <<>> THEN FALSE
  ELSE IF a = <<>> THEN TRUE
  ELSE IF CharCode(Head(a)) # CharCode(Head(b)) THEN CharCode(Head(a)) < CharCode(Head(b))
  ELSE StrLess(Tail(a), Tail(b))

\* C9: in the files save_index_to_files writes, every array of document ids
\* is ascending and every array of tokens is sorted.
C9_SortedArrays ==
  (index_file.status = "ok" /\ bigrams_file.status = "ok") =>
    /\ \A t \in DOMAIN index_file.data : StrictlyAscending(index_file.data[t])
    /\ \A b \in DOMAIN bigrams_file.data :
         \A i \in 1..(Len(bigrams_file.data[b]) - 1) :
           StrLess(bigrams_file.data[b][i], bigrams_file.data[b][i + 1])

\* C10: on an index loaded from the snapshot files, add_document raises
\* nothing, and afterwards the id is in the posting list of each token of the
\* text and each token is under each of its bigrams.
C10_IngestOnLoaded ==
  [][(kind = "dict" /\ op = "idle" /\ op' = "add_document") =>
       /\ exc' = "none"
       /\ \A p \in ingested' \ ingested :
            /\ p[2] \in DOMAIN word_docs' /\ p[1] \in word_docs'[p[2]]
            /\ \A b \in Range(bigrams(<<"$">> \o p[2] \o <<"$">>)) :
                 b \in DOMAIN index' /\ p[2] \in index'[b]]_vars
====
